---- MODULE Spec2Model ----
(***************************************************************************)
(* Model of the vitals simulation producer (producer.py), the start       *)
(* request (backend.py: maybe_start_simulation) and the dashboard's       *)
(* simulation controls (app.py).  The persisted run flag is the file      *)
(* simulation_running.txt; the loop threads and the dashboard sessions    *)
(* read and write it without locking.                                      *)
(***************************************************************************)
EXTENDS Integers, Sequences, FiniteSets, TLC

\* ------------------------------------------------------------------------
\* Bounds of the model
\* ------------------------------------------------------------------------
\* number of producer threads that start requests may create
MaxLoops == 2
\* number of dashboard sessions (browser tabs) acting concurrently
NumSessions == 2
\* longest vitals_history and longest diagnosed_conditions of a patient given
\* to the baseline and sample functions
MaxHistory == 4
MaxConditions == 2

Loops == 1..MaxLoops
Sessions == 1..NumSessions

\* ------------------------------------------------------------------------
\* Python helpers
\* ------------------------------------------------------------------------
Max(a, b) == IF a >= b THEN a ELSE b
Min(a, b) == IF a <= b THEN a ELSE b

\* int(a / b) for b > 0: Python's int() truncates toward zero
TruncDiv(a, b) == IF a >= 0 THEN a \div b ELSE -((-a) \div b)

RECURSIVE SumSeq(_)
SumSeq(s) == IF s = <<>> THEN 0 ELSE Head(s) + SumSeq(Tail(s))

\* d.get(key): a missing number is None, falsy like 0; a missing text is
\* None, falsy like "" (and d.get(key, "") is "")
GetNumber(d, key) == IF key \in DOMAIN d THEN d[key] ELSE 0
GetText(d, key) == IF key \in DOMAIN d THEN d[key] ELSE <<>>

WholeHistory(s) == s

\* s[-3:]
LastThree(s) == IF Len(s) <= 3 THEN s ELSE SubSeq(s, Len(s) - 2, Len(s))

\* ------------------------------------------------------------------------
\* Blood pressure strings: sequences of one-character strings
\* ------------------------------------------------------------------------
Digits == <<"0", "1", "2", "3", "4", "5", "6", "7", "8", "9">>

IsDigit(c) == \E i \in 1..10 : Digits[i] = c
DigitVal(c) == (CHOOSE i \in 1..10 : Digits[i] = c) - 1

\* bp.split("/")
RECURSIVE SplitSlash(_)
SplitSlash(s) ==
    IF s = <<>> THEN << <<>> >>
    ELSE LET rest == SplitSlash(Tail(s))
         IN  IF Head(s) = "/" THEN << <<>> >> \o rest
             ELSE << <<Head(s)>> \o Head(rest) >> \o Tail(rest)

\* int(text) succeeds on a non-empty run of digits with an optional sign
Unsigned(t) == IF t # <<>> /\ Head(t) \in {"-", "+"} THEN Tail(t) ELSE t
IntParses(t) == Unsigned(t) # <<>> /\ \A i \in 1..Len(Unsigned(t)) : IsDigit(Unsigned(t)[i])

RECURSIVE DigitsVal(_)
DigitsVal(t) == IF t = <<>> THEN 0
                ELSE DigitsVal(SubSeq(t, 1, Len(t) - 1)) * 10 + DigitVal(t[Len(t)])

IntOf(t) == IF t # <<>> /\ Head(t) = "-" THEN -DigitsVal(Unsigned(t)) ELSE DigitsVal(Unsigned(t))

\* s, d = map(int, bp.split("/")) raises unless there are exactly two integers
BpParses(bp) == LET parts == SplitSlash(bp)
                IN  Len(parts) = 2 /\ IntParses(parts[1]) /\ IntParses(parts[2])
BpSystolic(bp) == IntOf(SplitSlash(bp)[1])
BpDiastolic(bp) == IntOf(SplitSlash(bp)[2])

\* ------------------------------------------------------------------------
\* get_patient_baseline_vitals
\* ------------------------------------------------------------------------
\* Temperatures are in tenths of a degree.  A spo2 range is kept exactly as
\* numerators over the denominator den (percent = num / den).
DefaultBaseline ==
    [heart_rate_range |-> <<60, 100>>,
     systolic_range   |-> <<110, 130>>,
     diastolic_range  |-> <<70, 85>>,
     temp_range       |-> <<361, 372>>,
     spo2_range       |-> [lo |-> 95, hi |-> 99, den |-> 1]]

\* v.get(key) is truthy: a number other than 0, a non-empty string
Truthy(x) == x # 0
NonEmptyStr(x) == x # <<>>

\* [v["heart_rate"] for v in recent if v.get("heart_rate")]
HrValues(recent) ==
    LET kept == SelectSeq(recent, LAMBDA v : Truthy(GetNumber(v, "heart_rate")))
    IN  [i \in 1..Len(kept) |-> kept[i].heart_rate]

\* [v["blood_pressure"] for v in recent if v.get("blood_pressure")]
BpValues(recent) ==
    LET kept == SelectSeq(recent, LAMBDA v : NonEmptyStr(GetText(v, "blood_pressure")))
    IN  [i \in 1..Len(kept) |-> kept[i].blood_pressure]

\* [v["spo2"] for v in recent if v.get("spo2")]
Spo2Values(recent) ==
    LET kept == SelectSeq(recent, LAMBDA v : Truthy(GetNumber(v, "spo2")))
    IN  [i \in 1..Len(kept) |-> kept[i].spo2]

SystolicsLenient(bp_values) ==
    [i \in 1..Len(bp_values) |->
        IF BpParses(bp_values[i]) THEN BpSystolic(bp_values[i]) ELSE 0]

\* systolics and diastolics: one entry per string that parses
Systolics(bp_values) ==
    LET kept == SelectSeq(bp_values, BpParses)
    IN  [i \in 1..Len(kept) |-> BpSystolic(kept[i])]
Diastolics(bp_values) ==
    LET kept == SelectSeq(bp_values, BpParses)
    IN  [i \in 1..Len(kept) |-> BpDiastolic(kept[i])]

\* patient.get("vitals_history"), None when the field is absent
VitalsHistory(patient) ==
    IF "vitals_history" \in DOMAIN patient THEN patient.vitals_history ELSE <<>>

get_patient_baseline_vitals_temp(patient) ==
    LET recent == LastThree(VitalsHistory(patient))
        kept   == SelectSeq(recent, LAMBDA v : Truthy(GetNumber(v, "temperature_celsius")))
        temps  == [i \in 1..Len(kept) |-> kept[i].temperature_celsius]
        nt     == Len(temps)
    IN  [DefaultBaseline EXCEPT !.temp_range =
            IF nt = 0 THEN @
            ELSE << TruncDiv(SumSeq(temps) - 5 * nt, nt),
                    TruncDiv(SumSeq(temps) + 5 * nt, nt) >>]

get_patient_baseline_vitals_zero(patient) ==
    [DefaultBaseline EXCEPT !.heart_rate_range = <<0, 0>>]

get_patient_baseline_vitals_rounding(patient) ==
    LET hr_values == HrValues(LastThree(VitalsHistory(patient)))
        nh == Len(hr_values)
    IN  [DefaultBaseline EXCEPT !.heart_rate_range =
            IF nh = 0 THEN @
            ELSE << Max(50, TruncDiv(SumSeq(hr_values) - 15 * nh + nh - 1, nh)),
                    Min(120, TruncDiv(SumSeq(hr_values) + 15 * nh + nh - 1, nh)) >>]

get_patient_baseline_vitals(patient) ==
    IF VitalsHistory(patient) = <<>> THEN DefaultBaseline
    ELSE
    LET recent      == LastThree(VitalsHistory(patient))
        hr_values   == HrValues(recent)
        bp_values   == BpValues(recent)
        systolics   == Systolics(bp_values)
        diastolics  == Diastolics(bp_values)
        spo2_values == Spo2Values(recent)
        nh == Len(hr_values)
        nb == Len(systolics)
        ns == Len(spo2_values)
    IN  [heart_rate_range |->
            IF nh = 0 THEN DefaultBaseline.heart_rate_range
            ELSE << Max(50, TruncDiv(SumSeq(hr_values) - 15 * nh, nh)),
                    Min(120, TruncDiv(SumSeq(hr_values) + 15 * nh, nh)) >>,
         systolic_range |->
            IF nb = 0 THEN DefaultBaseline.systolic_range
            ELSE << Max(90, TruncDiv(SumSeq(systolics) - 10 * nb, nb)),
                    Min(160, TruncDiv(SumSeq(systolics) + 10 * nb, nb)) >>,
         diastolic_range |->
            IF nb = 0 THEN DefaultBaseline.diastolic_range
            ELSE << Max(60, TruncDiv(SumSeq(diastolics) - 8 * nb, nb)),
                    Min(100, TruncDiv(SumSeq(diastolics) + 8 * nb, nb)) >>,
         temp_range |-> DefaultBaseline.temp_range,
         \* spo2 values are in tenths of a percent: avg = sum / (10 * ns)
         spo2_range |->
            IF ns = 0 THEN DefaultBaseline.spo2_range
            ELSE [lo  |-> Max(88 * 10 * ns, SumSeq(spo2_values) - 3 * 10 * ns),
                  hi  |-> Min(100 * 10 * ns, SumSeq(spo2_values) + 2 * 10 * ns),
                  den |-> 10 * ns]]

\* random.randint(lo, hi) raises ValueError on an empty range; random.uniform
\* never raises.  generate_patient_vitals draws heart_rate, systolic and
\* diastolic with randint before anything else.
GenerateRaises(baseline) ==
    \/ baseline.heart_rate_range[1] > baseline.heart_rate_range[2]
    \/ baseline.systolic_range[1] > baseline.systolic_range[2]
    \/ baseline.diastolic_range[1] > baseline.diastolic_range[2]

\* ------------------------------------------------------------------------
\* Text: str(n), s.lower(), sub in s
\* ------------------------------------------------------------------------
\* f"{n}" for an integer n
RECURSIVE DigitsOf(_)
DigitsOf(n) ==
    IF n < 0 THEN <<"-">> \o DigitsOf(-n)
    ELSE IF n < 10 THEN <<Digits[n + 1]>>
    ELSE DigitsOf(n \div 10) \o <<Digits[(n % 10) + 1]>>

UpperCase == <<"A", "B", "C", "D", "E", "F", "G", "H", "I", "J", "K", "L", "M", "N", "O", "P", "Q", "R", "S", "T", "U", "V", "W", "X", "Y", "Z">>
LowerCase == <<"a", "b", "c", "d", "e", "f", "g", "h", "i", "j", "k", "l", "m", "n", "o", "p", "q", "r", "s", "t", "u", "v", "w", "x", "y", "z">>

LowerChar(c) ==
    IF \E i \in 1..26 : UpperCase[i] = c
    THEN LowerCase[CHOOSE i \in 1..26 : UpperCase[i] = c]
    ELSE c

\* s.lower()
Lower(s) == [i \in 1..Len(s) |-> LowerChar(s[i])]

\* sub in s
Contains(s, sub) ==
    \E i \in 1..(Len(s) - Len(sub) + 1) : SubSeq(s, i, i + Len(sub) - 1) = sub

\* ------------------------------------------------------------------------
\* generate_patient_vitals
\* ------------------------------------------------------------------------
\* the keywords looked for in a condition's name, and the severities
KwHypertension == <<"h", "y", "p", "e", "r", "t", "e", "n", "s", "i", "o", "n">>
KwDiabetes == <<"d", "i", "a", "b", "e", "t", "e", "s">>
KwCopd == <<"c", "o", "p", "d">>
KwAsthma == <<"a", "s", "t", "h", "m", "a">>
KwFever == <<"f", "e", "v", "e", "r">>
KwInfection == <<"i", "n", "f", "e", "c", "t", "i", "o", "n">>
SevModerate == <<"m", "o", "d", "e", "r", "a", "t", "e">>
SevSevere == <<"s", "e", "v", "e", "r", "e">>

\* The random source: of random.randint(lo, hi) and random.uniform(lo, hi)
\* the two ends of the range are drawn.
Draw(lo, hi) == {lo, hi}

\* round(x, 1) of x = num / den >= 0, in tenths: the nearest tenth, a tie to
\* the even one
RoundTenths(num, den) ==
    LET q == (10 * num) \div den
        r == (10 * num) % den
    IN  IF 2 * r < den THEN q
        ELSE IF 2 * r > den THEN q + 1
        ELSE IF q % 2 = 0 THEN q ELSE q + 1

\* lines 92-96: the five draws (temperature and spo2 in tenths)
InitialDraws(baseline) ==
    { [heart_rate |-> h, systolic |-> sy, diastolic |-> di, temp |-> t, spo2 |-> o] :
        h  \in Draw(baseline.heart_rate_range[1], baseline.heart_rate_range[2]),
        sy \in Draw(baseline.systolic_range[1], baseline.systolic_range[2]),
        di \in Draw(baseline.diastolic_range[1], baseline.diastolic_range[2]),
        t  \in Draw(baseline.temp_range[1], baseline.temp_range[2]),
        o  \in Draw(RoundTenths(baseline.spo2_range.lo, baseline.spo2_range.den),
                    RoundTenths(baseline.spo2_range.hi, baseline.spo2_range.den)) }

PerturbLowering(v, condition) ==
    { [v EXCEPT !.systolic = @ - a] : a \in Draw(10, 25) }

\* lines 100-111: what one condition does to the values drawn so far
Perturb(v, condition) ==
    LET name     == Lower(GetText(condition, "condition"))
        severity == Lower(GetText(condition, "severity"))
    IN  IF Contains(name, KwHypertension) /\ severity \in {SevModerate, SevSevere}
        THEN { [v EXCEPT !.systolic = @ + a, !.diastolic = @ + b] :
                    a \in Draw(10, 25), b \in Draw(5, 15) }
        ELSE IF Contains(name, KwDiabetes)
        THEN { [v EXCEPT !.heart_rate = @ + a] : a \in Draw(0, 10) }
        ELSE IF Contains(name, KwCopd) \/ Contains(name, KwAsthma)
        THEN { [v EXCEPT !.spo2 = Max(880, @ - a)] : a \in Draw(0, 50) }
        ELSE IF Contains(name, KwFever) \/ Contains(name, KwInfection)
        THEN { [v EXCEPT !.temp = @ + a, !.heart_rate = @ + b] :
                    a \in Draw(5, 20), b \in Draw(5, 20) }
        ELSE {v}

\* lines 98-99: for condition in patient["diagnosed_conditions"], in order
RECURSIVE PerturbAll(_, _)
PerturbAll(vs, conditions) ==
    IF conditions = <<>> THEN vs
    ELSE PerturbAll(UNION { Perturb(v, Head(conditions)) : v \in vs }, Tail(conditions))

\* patient.get("diagnosed_conditions"), None when the field is absent
DiagnosedConditions(patient) ==
    IF "diagnosed_conditions" \in DOMAIN patient THEN patient.diagnosed_conditions ELSE <<>>

ClampNone(v) == v

\* lines 113-117
Clamp(v) ==
    [heart_rate |-> Max(40, Min(180, v.heart_rate)),
     systolic   |-> Max(80, Min(200, v.systolic)),
     diastolic  |-> Max(50, Min(120, v.diastolic)),
     temp       |-> Max(350, Min(420, v.temp)),
     spo2       |-> Max(700, Min(1000, v.spo2))]

VitalsDataDashed(patient, v, now) ==
    [patient_id          |-> patient.patient_id,
     patient_name        |-> IF "name" \in DOMAIN patient THEN patient.name ELSE "Unknown",
     heart_rate          |-> v.heart_rate,
     blood_pressure      |-> DigitsOf(v.systolic) \o <<"-">> \o DigitsOf(v.diastolic),
     temperature_celsius |-> v.temp,
     oxygen_saturation   |-> v.spo2,
     timestamp           |-> now]

\* lines 119-127: the sample returned
VitalsData(patient, v, now) ==
    [patient_id          |-> patient.patient_id,
     patient_name        |-> IF "name" \in DOMAIN patient THEN patient.name ELSE "Unknown",
     heart_rate          |-> v.heart_rate,
     blood_pressure      |-> DigitsOf(v.systolic) \o <<"/">> \o DigitsOf(v.diastolic),
     temperature_celsius |-> v.temp,
     oxygen_saturation   |-> v.spo2,
     timestamp           |-> now]

\* lines 92-111: the values before the clamps; none when random.randint raises
PreClampValues(patient, baseline) ==
    IF GenerateRaises(baseline) THEN {}
    ELSE PerturbAll(InitialDraws(baseline), DiagnosedConditions(patient))

\* the samples generate_patient_vitals(patient, baseline) can return at time
\* now
generate_patient_vitals(patient, baseline, now) ==
    { VitalsData(patient, Clamp(v), now) : v \in PreClampValues(patient, baseline) }

\* ------------------------------------------------------------------------
\* The profile store: rosters that find({"is_active": True}) may return
\* ------------------------------------------------------------------------
NoHistory == <<>>
BpText12080 == <<"1", "2", "0", "/", "8", "0">>
BpTextNA == <<"N", "/", "A">>

PatientA == [patient_id |-> "P001", vitals_history |-> NoHistory]
PatientB == [patient_id |-> "P002",
             vitals_history |->
                << [heart_rate |-> 88, blood_pressure |-> BpText12080, spo2 |-> 970],
                   [heart_rate |-> 92, blood_pressure |-> BpTextNA, spo2 |-> 965] >>]
\* a tachycardic history: the average heart rate is above 135
PatientC == [patient_id |-> "P003",
             vitals_history |->
                << [heart_rate |-> 138, blood_pressure |-> BpText12080, spo2 |-> 950],
                   [heart_rate |-> 142, blood_pressure |-> BpText12080, spo2 |-> 940] >>]

RosterChoices == { <<>>, <<PatientA, PatientB>>, <<PatientC>> }

\* a second active document with PatientA's patient_id and a history of its
\* own: the collection has no unique index on patient_id
PatientD == [patient_id |-> "P001",
             vitals_history |->
                << [heart_rate |-> 88, blood_pressure |-> BpText12080, spo2 |-> 970] >>]
DuplicateRoster == <<PatientA, PatientD>>

\* ------------------------------------------------------------------------
\* The run flag file (SIMULATION_FLAG_FILE)
\* ------------------------------------------------------------------------
\* "absent": the file does not exist; otherwise the text of the file
FlagTexts == {"absent", "", "0", "1"}

\* is_simulation_running(): f.read().strip() == "1" if the file exists
is_simulation_running(f) == IF f = "absent" THEN FALSE ELSE f = "1"

\* set_simulation_running(flag): open(..., "w") creates or truncates the file
OpenForWrite(f) == ""
\* ... and f.write("1" if flag else "0") reaches the file when it is closed
WrittenText(flag) == IF flag THEN "1" ELSE "0"

\* ------------------------------------------------------------------------
\* State
\* ------------------------------------------------------------------------
VARIABLES
    flagFile,           \* text of simulation_running.txt
    ENABLE_SIMULATION,  \* config.ENABLE_SIMULATION
    loop,               \* the producer threads: main()'s position and locals
    ui,                 \* the dashboard sessions: handler position, session_state
    obs,                \* per thread: what has been observed of its run
    trueSinceStop,      \* "1" has been written since "0" was last written
    stopSinceStart,     \* a stop request has written "0" since the last start request
    watch,              \* which of the costly records of obs is kept
    calc,               \* one call chain baseline -> sample -> record, on its own
    backend             \* backend.py's clients and stores, and its last call

vars == <<flagFile, ENABLE_SIMULATION, loop, ui, obs, trueSinceStop, stopSinceStart, watch, calc, backend>>

\* positions of main(): "unborn" is a thread not yet created
StartingPcs == {"set", "set_w", "load"}
MidCyclePcs == {"for", "gen", "send"}
RunningPcs == MidCyclePcs \cup {"while", "post"}
StoppingPcs == {"finally", "finally_w"}
LoopPcs == {"unborn", "done"} \cup StartingPcs \cup RunningPcs \cup StoppingPcs

NewLoop == [pc |-> "unborn", active_patients |-> <<>>, patient_baselines |-> <<>>,
            idx |-> 0]
NewSession == [pc |-> "idle", sim_started |-> FALSE]

\* What is recorded of a thread's run:
\*   reported  the value maybe_start_simulation returned for its start request
\*   co        another thread was alive when this one was created
\*   exit      why main() left: "empty" roster, "stop" seen at a subject or
\*             cycle boundary, "error" inside the try block
\*   conn      conn_status["mongodb"] as its start request found it
\*   cleared   its finally block has written "0"
\*   brk       the per-subject check of this cycle read the flag as false
\*   fail      a publish of this cycle failed
\*   tries     publish attempts made for the sample last generated in this
\*             cycle
\*   at, g, p, c   "0" was written while the thread was mid-cycle at position
\*             at, and "1" not since: samples generated, records submitted, a
\*             cycle begun since then
\*   req       1: a stop request wrote "0" while the loop was running;
\*             2: and the loop has generated a sample since (0 again after
\*             the sample that follows it)
\*   afterStop a stop request had written "0" since the start request before
\*             the one that created this thread
NewObs == [reported |-> FALSE, conn |-> FALSE, co |-> FALSE, exit |-> "none", cleared |-> FALSE,
           brk |-> FALSE, fail |-> FALSE, tries |-> 0,
           at |-> "no", g |-> 0, p |-> 0, c |-> FALSE,
           req |-> 0, afterStop |-> FALSE]

\* once main() has returned only reported, conn, co, exit and cleared are kept
Ended(o, why, clr) ==
    [NewObs EXCEPT !.reported = o.reported, !.conn = o.conn, !.co = o.co,
                   !.exit = why, !.cleared = clr]

\* no call chain is followed on its own while the threads and sessions run
NoCalc == [pc |-> "off"]

\* nor are the alert functions of backend.py
NoBackend == [pc |-> "off"]

\* The records at/g/p/c, req, fail and tries, and afterStop, of obs are each
\* kept under one specification only: "stop", "request", "publish" and
\* "restart"; under "roster" the store may hold DuplicateRoster
Watches == {"none", "stop", "request", "publish", "restart", "roster", "calc", "alert"}

InitWatching(w) ==
    /\ watch = w
    /\ flagFile = "absent"
    /\ ENABLE_SIMULATION \in BOOLEAN
    /\ loop = [l \in Loops |-> NewLoop]
    /\ ui = [s \in Sessions |-> NewSession]
    /\ obs = [l \in Loops |-> NewObs]
    /\ trueSinceStop = FALSE
    /\ stopSinceStart = FALSE
    /\ calc = NoCalc
    /\ backend = NoBackend

\* the locals of main() are not used once the loop has been left
Leave(pc) == [NewLoop EXCEPT !.pc = pc]

Cap2(n) == Min(n, 2)

\* observers of a completed write of the flag
AfterTrueWrite(o) ==
    [l \in Loops |-> [o[l] EXCEPT !.at = "no", !.g = 0, !.p = 0, !.c = FALSE]]
AfterFalseWrite(o, L) ==
    [l \in Loops |-> IF watch = "stop" /\ L[l].pc \in MidCyclePcs /\ o[l].at = "no"
                     THEN [o[l] EXCEPT !.at = L[l].pc] ELSE o[l]]
AfterStopRequest(o, L) ==
    [l \in Loops |-> IF watch = "request" /\ L[l].pc \in RunningPcs /\ o[l].req = 0
                     THEN [o[l] EXCEPT !.req = 1] ELSE o[l]]

\* ------------------------------------------------------------------------
\* producer.main(): one thread per successful start request
\* ------------------------------------------------------------------------
\* fetch_active_patients(): the active patients the store holds, or [] when
\* the query fails
fetch_active_patients(up, stored) == IF up THEN stored ELSE <<>>

\* {p["patient_id"]: get_patient_baseline_vitals(p) for p in active_patients}:
\* a later entry with the same key replaces an earlier one
PatientBaselines(ps) ==
    [pid \in {ps[i].patient_id : i \in 1..Len(ps)} |->
        LET last == CHOOSE i \in 1..Len(ps) :
                        /\ ps[i].patient_id = pid
                        /\ \A j \in 1..Len(ps) : ps[j].patient_id = pid => j <= i
        IN  get_patient_baseline_vitals(ps[last])]

\* set_simulation_running(True), line 160: open the file ...
MainSetOpen(l) ==
    /\ loop[l].pc = "set"
    /\ flagFile' = OpenForWrite(flagFile)
    /\ loop' = [loop EXCEPT ![l].pc = "set_w"]
    /\ UNCHANGED <<ENABLE_SIMULATION, ui, obs, trueSinceStop, stopSinceStart, watch, calc, backend>>

\* ... and write "1"
MainSetClose(l) ==
    /\ loop[l].pc = "set_w"
    /\ flagFile' = WrittenText(TRUE)
    /\ loop' = [loop EXCEPT ![l].pc = "load"]
    /\ obs' = AfterTrueWrite(obs)
    /\ trueSinceStop' = TRUE
    /\ UNCHANGED <<ENABLE_SIMULATION, ui, stopSinceStart, watch, calc, backend>>

\* what the store may hold; the roster with a repeated patient_id is among
\* them under one specification only
StoredRosters ==
    IF watch = "roster" THEN RosterChoices \cup {DuplicateRoster} ELSE RosterChoices

\* lines 162-169: load the roster, return if it is empty, compute the baselines
MainLoad(l) ==
    /\ loop[l].pc = "load"
    /\ \E up \in BOOLEAN, stored \in StoredRosters :
        LET active_patients == fetch_active_patients(up, stored)
        IN  IF active_patients = <<>>
            THEN /\ loop' = [loop EXCEPT ![l] = Leave("done")]
                 /\ obs' = [obs EXCEPT ![l] = Ended(obs[l], "empty", FALSE)]
            ELSE /\ loop' = [loop EXCEPT
                        ![l].pc = "while",
                        ![l].active_patients = active_patients,
                        ![l].patient_baselines = PatientBaselines(active_patients)]
                 /\ obs' = obs
    /\ UNCHANGED <<flagFile, ENABLE_SIMULATION, ui, trueSinceStop, stopSinceStart, watch, calc, backend>>

\* line 173: while is_simulation_running()
MainWhile(l) ==
    /\ loop[l].pc = "while"
    /\ IF is_simulation_running(flagFile)
       THEN /\ loop' = [loop EXCEPT ![l].pc = "for", ![l].idx = 1]
            /\ obs' = [obs EXCEPT ![l].c = (obs[l].at # "no")]
       ELSE /\ loop' = [loop EXCEPT ![l] = Leave("finally")]
            /\ obs' = [obs EXCEPT ![l].exit = "stop"]
    /\ UNCHANGED <<flagFile, ENABLE_SIMULATION, ui, trueSinceStop, stopSinceStart, watch, calc, backend>>

\* lines 178-180: the per-subject check
MainForNoCheck(l) ==
    /\ loop[l].pc = "for"
    /\ loop' = [loop EXCEPT ![l].pc = "gen"]
    /\ UNCHANGED <<flagFile, ENABLE_SIMULATION, ui, obs, trueSinceStop, stopSinceStart, watch, calc, backend>>

MainFor(l) ==
    /\ loop[l].pc = "for"
    /\ IF ~is_simulation_running(flagFile)
       THEN /\ loop' = [loop EXCEPT ![l].pc = "post"]
            /\ obs' = [obs EXCEPT ![l].brk = TRUE]
       ELSE /\ loop' = [loop EXCEPT ![l].pc = "gen"]
            /\ obs' = obs
    /\ UNCHANGED <<flagFile, ENABLE_SIMULATION, ui, trueSinceStop, stopSinceStart, watch, calc, backend>>

MainGenerateRetry(l) ==
    /\ loop[l].pc = "gen"
    /\ LET pid == loop[l].active_patients[loop[l].idx].patient_id
           baseline == loop[l].patient_baselines[pid]
       IN  IF GenerateRaises(baseline)
           THEN /\ loop' = loop
                /\ obs' = obs
           ELSE /\ loop' = [loop EXCEPT ![l].pc = "send"]
                /\ obs' = [obs EXCEPT
                      ![l].tries = 0,
                      ![l].g = IF obs[l].at # "no" THEN Cap2(obs[l].g + 1) ELSE 0,
                      ![l].req = IF obs[l].req = 1 THEN 2 ELSE 0]
    /\ UNCHANGED <<flagFile, ENABLE_SIMULATION, ui, trueSinceStop, stopSinceStart, watch, calc, backend>>

\* lines 182-185: generate_patient_vitals(patient, patient_baselines[pid]);
\* an exception leaves the try block through "except Exception" (line 198)
MainGenerate(l) ==
    /\ loop[l].pc = "gen"
    /\ LET pid == loop[l].active_patients[loop[l].idx].patient_id
           baseline == loop[l].patient_baselines[pid]
       IN  IF GenerateRaises(baseline)
           THEN /\ loop' = [loop EXCEPT ![l] = Leave("finally")]
                /\ obs' = [obs EXCEPT ![l].exit = "error"]
           ELSE /\ loop' = [loop EXCEPT ![l].pc = "send"]
                /\ obs' = [obs EXCEPT
                      ![l].tries = 0,
                      ![l].g = IF obs[l].at # "no" THEN Cap2(obs[l].g + 1) ELSE 0,
                      ![l].req = IF obs[l].req = 1 THEN 2 ELSE 0]
    /\ UNCHANGED <<flagFile, ENABLE_SIMULATION, ui, trueSinceStop, stopSinceStart, watch, calc, backend>>

NextPatientSkip(l) == [loop EXCEPT ![l].pc = "post"]

\* the for statement: the next patient, or the end of the roster
NextPatient(l) ==
    IF loop[l].idx < Len(loop[l].active_patients)
    THEN [loop EXCEPT ![l].pc = "for", ![l].idx = loop[l].idx + 1]
    ELSE [loop EXCEPT ![l].pc = "post"]

\* send_vitals_to_kinesis(vitals_data): put_record succeeds, or its exception
\* is caught and None is returned; main() ignores the result (line 186)
send_vitals_to_kinesis_retry(l, ok) ==
    IF ok THEN NextPatient(l) ELSE loop

send_vitals_to_kinesis_raising(l, ok) ==
    IF ok THEN NextPatient(l) ELSE [loop EXCEPT ![l] = Leave("finally")]

send_vitals_to_kinesis(l, ok) == NextPatient(l)

\* lines 186-188 and 177: publish the sample, time.sleep(1), then the next
\* patient of the roster
MainSend(l) ==
    /\ loop[l].pc = "send"
    /\ \E ok \in BOOLEAN :
        /\ loop' = send_vitals_to_kinesis(l, ok)
        /\ obs' = [obs EXCEPT
              ![l].fail = (watch = "publish") /\ (obs[l].fail \/ ~ok),
              ![l].tries = IF watch = "publish" THEN Cap2(obs[l].tries + 1) ELSE 0,
              ![l].p = IF obs[l].at # "no" THEN Cap2(obs[l].p + 1) ELSE 0]
    /\ UNCHANGED <<flagFile, ENABLE_SIMULATION, ui, trueSinceStop, stopSinceStart, watch, calc, backend>>

\* lines 190-194: the check after the for loop (also reached by its break),
\* then time.sleep(3) and back to the while condition
MainPostReload(l) ==
    /\ loop[l].pc = "post"
    /\ IF ~is_simulation_running(flagFile)
       THEN /\ loop' = [loop EXCEPT ![l] = Leave("finally")]
            /\ obs' = [obs EXCEPT ![l].exit = "stop"]
       ELSE /\ \E stored \in RosterChoices \ {<<>>} :
                loop' = [loop EXCEPT
                    ![l].pc = "while",
                    ![l].active_patients = stored,
                    ![l].patient_baselines = PatientBaselines(stored)]
            /\ obs' = [obs EXCEPT ![l].brk = FALSE, ![l].fail = FALSE, ![l].tries = 0]
    /\ UNCHANGED <<flagFile, ENABLE_SIMULATION, ui, trueSinceStop, stopSinceStart, watch, calc, backend>>

MainPost(l) ==
    /\ loop[l].pc = "post"
    /\ IF ~is_simulation_running(flagFile)
       THEN /\ loop' = [loop EXCEPT ![l] = Leave("finally")]
            /\ obs' = [obs EXCEPT ![l].exit = "stop"]
       ELSE /\ loop' = [loop EXCEPT ![l].pc = "while"]
            /\ obs' = [obs EXCEPT ![l].brk = FALSE, ![l].fail = FALSE, ![l].tries = 0]
    /\ UNCHANGED <<flagFile, ENABLE_SIMULATION, ui, trueSinceStop, stopSinceStart, watch, calc, backend>>

\* finally: set_simulation_running(False), line 201: open the file ...
MainFinallyOpen(l) ==
    /\ loop[l].pc = "finally"
    /\ flagFile' = OpenForWrite(flagFile)
    /\ loop' = [loop EXCEPT ![l].pc = "finally_w"]
    /\ UNCHANGED <<ENABLE_SIMULATION, ui, obs, trueSinceStop, stopSinceStart, watch, calc, backend>>

\* ... and write "0"; main() returns
MainFinallySkip(l) ==
    /\ loop[l].pc = "finally_w"
    /\ loop' = [loop EXCEPT ![l] = Leave("done")]
    /\ obs' = [obs EXCEPT ![l] = Ended(obs[l], obs[l].exit, FALSE)]
    /\ UNCHANGED <<flagFile, ENABLE_SIMULATION, ui, trueSinceStop, stopSinceStart, watch, calc, backend>>

MainFinallyClose(l) ==
    /\ loop[l].pc = "finally_w"
    /\ flagFile' = WrittenText(FALSE)
    /\ loop' = [loop EXCEPT ![l] = Leave("done")]
    /\ obs' = [AfterFalseWrite(obs, loop) EXCEPT ![l] = Ended(obs[l], obs[l].exit, TRUE)]
    /\ trueSinceStop' = FALSE
    /\ UNCHANGED <<ENABLE_SIMULATION, ui, stopSinceStart, watch, calc, backend>>

LoopStep(l) ==
    \/ MainSetOpen(l)
    \/ MainSetClose(l)
    \/ MainLoad(l)
    \/ MainWhile(l)
    \/ MainFor(l)
    \/ MainGenerate(l)
    \/ MainSend(l)
    \/ MainPost(l)
    \/ MainFinallyOpen(l)
    \/ MainFinallyClose(l)

\* ------------------------------------------------------------------------
\* backend.maybe_start_simulation() and the dashboard's controls (app.py)
\* ------------------------------------------------------------------------
\* validate_connections()["mongodb"]: db_live.command("ping") succeeded
validate_connections_mongodb(up) == up

\* the first thread not yet created
NextThread(l) == loop[l].pc = "unborn" /\ \A k \in Loops : k < l => loop[k].pc # "unborn"

\* a daemon thread running producer.main() is created for session s
CreateThread(s, conn) ==
    \E l \in Loops :
        /\ NextThread(l)
        /\ loop' = [loop EXCEPT ![l].pc = "set"]
        /\ obs' = [obs EXCEPT
              ![l].reported = TRUE,
              ![l].conn = conn,
              ![l].co = \E k \in Loops : loop[k].pc \notin {"unborn", "done"},
              ![l].afterStop = (watch = "restart" /\ stopSinceStart)]
        /\ stopSinceStart' = FALSE
        /\ ui' = [ui EXCEPT ![s].pc = "set"]

Refuse(s) ==
    /\ ui' = [ui EXCEPT ![s].pc = "failed"]
    /\ UNCHANGED <<loop, obs, stopSinceStart>>

\* maybe_start_simulation() and "if success:" in the caller.  False when the
\* simulation is disabled or MongoDB is not connected: the caller shows an
\* error.  Otherwise the thread is started and True is returned: the caller
\* goes on to set_simulation_running(True)
maybe_start_simulation_forced(s) ==
    \E up \in BOOLEAN :
        IF ~validate_connections_mongodb(up)
        THEN Refuse(s)
        ELSE CreateThread(s, validate_connections_mongodb(up))

maybe_start_simulation_unchecked(s) ==
    IF ~ENABLE_SIMULATION
    THEN Refuse(s)
    ELSE \E up \in BOOLEAN : CreateThread(s, validate_connections_mongodb(up))

maybe_start_simulation(s) ==
    IF ~ENABLE_SIMULATION
    THEN Refuse(s)
    ELSE \E up \in BOOLEAN :
            IF ~validate_connections_mongodb(up)
            THEN Refuse(s)
            ELSE CreateThread(s, validate_connections_mongodb(up))

\* "Start Simulation", shown when session_state.sim_started is false
ClickStart(s) ==
    /\ ui[s].pc = "idle"
    /\ ~ui[s].sim_started
    /\ maybe_start_simulation(s)
    /\ UNCHANGED <<flagFile, ENABLE_SIMULATION, trueSinceStop, watch, calc, backend>>

\* "Restart Simulation" on the system status page, always shown
ClickRestart(s) ==
    /\ ui[s].pc = "idle"
    /\ maybe_start_simulation(s)
    /\ UNCHANGED <<flagFile, ENABLE_SIMULATION, trueSinceStop, watch, calc, backend>>

\* if success: set_simulation_running(True): open the file ...
UiSetOpen(s) ==
    /\ ui[s].pc = "set"
    /\ flagFile' = OpenForWrite(flagFile)
    /\ ui' = [ui EXCEPT ![s].pc = "set_w"]
    /\ UNCHANGED <<ENABLE_SIMULATION, loop, obs, trueSinceStop, stopSinceStart, watch, calc, backend>>

\* ... and write "1"
UiSetClose(s) ==
    /\ ui[s].pc = "set_w"
    /\ flagFile' = WrittenText(TRUE)
    /\ ui' = [ui EXCEPT ![s].pc = "read"]
    /\ obs' = AfterTrueWrite(obs)
    /\ trueSinceStop' = TRUE
    /\ UNCHANGED <<ENABLE_SIMULATION, loop, stopSinceStart, watch, calc, backend>>

\* st.session_state.sim_started = is_simulation_running(), after either write
UiRead(s) ==
    /\ ui[s].pc = "read"
    /\ ui' = [ui EXCEPT ![s].pc = "idle",
                        ![s].sim_started = is_simulation_running(flagFile)]
    /\ UNCHANGED <<flagFile, ENABLE_SIMULATION, loop, obs, trueSinceStop, stopSinceStart, watch, calc, backend>>

\* else: st.error("Failed to start simulation. Check logs."); the handler ends
UiError(s) ==
    /\ ui[s].pc = "failed"
    /\ ui' = [ui EXCEPT ![s].pc = "idle"]
    /\ UNCHANGED <<flagFile, ENABLE_SIMULATION, loop, obs, trueSinceStop, stopSinceStart, watch, calc, backend>>

\* "Stop Simulation", shown when session_state.sim_started is true:
\* set_simulation_running(False): open the file ...
ClickStop(s) ==
    /\ ui[s].pc = "idle"
    /\ ui[s].sim_started
    /\ flagFile' = OpenForWrite(flagFile)
    /\ ui' = [ui EXCEPT ![s].pc = "stop_w"]
    /\ UNCHANGED <<ENABLE_SIMULATION, loop, obs, trueSinceStop, stopSinceStart, watch, calc, backend>>

\* ... and write "0"
UiStopClose(s) ==
    /\ ui[s].pc = "stop_w"
    /\ flagFile' = WrittenText(FALSE)
    /\ ui' = [ui EXCEPT ![s].pc = "read"]
    /\ obs' = AfterStopRequest(AfterFalseWrite(obs, loop), loop)
    /\ trueSinceStop' = FALSE
    /\ stopSinceStart' = TRUE
    /\ UNCHANGED <<ENABLE_SIMULATION, loop, watch, calc, backend>>

\* get_system_status(), and the session set-up of a page run
Refresh(s) ==
    /\ ui[s].pc = "idle"
    /\ ui[s].sim_started # is_simulation_running(flagFile)
    /\ ui' = [ui EXCEPT ![s].sim_started = is_simulation_running(flagFile)]
    /\ UNCHANGED <<flagFile, ENABLE_SIMULATION, loop, obs, trueSinceStop, stopSinceStart, watch, calc, backend>>

Next ==
    \/ \E l \in Loops : LoopStep(l)
    \/ \E s \in Sessions : ClickStart(s)
    \/ \E s \in Sessions : ClickRestart(s)
    \/ \E s \in Sessions : UiSetOpen(s)
    \/ \E s \in Sessions : UiSetClose(s)
    \/ \E s \in Sessions : UiRead(s)
    \/ \E s \in Sessions : UiError(s)
    \/ \E s \in Sessions : ClickStop(s)
    \/ \E s \in Sessions : UiStopClose(s)
    \/ \E s \in Sessions : Refresh(s)

Init == InitWatching("none")
Spec == Init /\ [][Next]_vars

\* the same program, with one more record kept of each thread's run
SpecStop == InitWatching("stop") /\ [][Next]_vars
SpecRequest == InitWatching("request") /\ [][Next]_vars
SpecPublish == InitWatching("publish") /\ [][Next]_vars
SpecRestart == InitWatching("restart") /\ [][Next]_vars
SpecRoster == InitWatching("roster") /\ [][Next]_vars

\* every created thread keeps being scheduled; sleeps and calls return
FairSpec == Spec /\ \A l \in Loops : WF_vars(LoopStep(l))

\* ------------------------------------------------------------------------
\* The call chain get_patient_baseline_vitals -> generate_patient_vitals ->
\* send_vitals_to_kinesis for one patient, followed on its own
\* ------------------------------------------------------------------------
SeqsUpTo(S, n) == UNION { [1..k -> S] : k \in 0..n }

BpText190110 == <<"1", "9", "0", "/", "1", "1", "0">>

\* records of a vitals_history
EntryNormal == [heart_rate |-> 88, blood_pressure |-> BpText12080, spo2 |-> 970]
EntryNoBp == [heart_rate |-> 91, blood_pressure |-> BpTextNA, spo2 |-> 965]
EntryCrisis == [heart_rate |-> 142, blood_pressure |-> BpText190110, spo2 |-> 820,
                temperature_celsius |-> 395]
EntrySparse == [heart_rate |-> 30]
HistoryEntries == {EntryNormal, EntryNoBp, EntryCrisis, EntrySparse}
Histories == SeqsUpTo(HistoryEntries, MaxHistory)

\* entries of diagnosed_conditions
ConditionChoices ==
    { [condition |-> <<"H", "y", "p", "e", "r", "t", "e", "n", "s", "i", "o", "n">>, severity |-> <<"S", "e", "v", "e", "r", "e">>],
      [condition |-> <<"h", "y", "p", "e", "r", "t", "e", "n", "s", "i", "o", "n">>, severity |-> <<"m", "i", "l", "d">>],
      [condition |-> <<"T", "y", "p", "e", " ", "2", " ", "D", "i", "a", "b", "e", "t", "e", "s">>],
      [condition |-> <<"C", "O", "P", "D">>, severity |-> <<"m", "o", "d", "e", "r", "a", "t", "e">>],
      [condition |-> <<"F", "e", "v", "e", "r">>, severity |-> <<"m", "i", "l", "d">>],
      [condition |-> <<"M", "i", "g", "r", "a", "i", "n", "e">>],
      [condition |-> <<"C", "O", "P", "D", " ", "i", "n", "f", "e", "c", "t", "i", "o", "n">>] }
ConditionLists == SeqsUpTo(ConditionChoices, MaxConditions)

\* documents of the patients collection
PatientChoices ==
    { [patient_id |-> "P010", name |-> "Asha Rao", vitals_history |-> h] : h \in Histories }
    \cup { [patient_id |-> "P011", diagnosed_conditions |-> c] : c \in ConditionLists }

\* baselines handed to generate_patient_vitals directly
WideBaseline ==
    [heart_rate_range |-> <<0, 250>>,
     systolic_range   |-> <<50, 260>>,
     diastolic_range  |-> <<20, 150>>,
     temp_range       |-> <<300, 450>>,
     spo2_range       |-> [lo |-> 50, hi |-> 120, den |-> 1]]
GivenBaselines == {WideBaseline}

\* os.getenv("KINESIS_PARTITION_KEY"): None when the variable is not set
Unset == "(unset)"
KeyChoices == {Unset, "patient_id", "patient_name", "heart_rate"}

\* datetime.utcnow().isoformat()
Timestamps == {"2025-01-01T00:00:00.000000"}

\* the fields of a sample whose value is a str
TextFields == {"patient_id", "patient_name", "timestamp"}

NotSubmitted == [submitted |-> FALSE]

\* kinesis_client.put_record(StreamName, Data, PartitionKey) inside
\* send_vitals_to_kinesis: the record the endpoint receives, or nothing when
\* the key lookup raises KeyError, the client rejects a PartitionKey that is
\* not a string, or the call fails (all caught at line 140)
put_record_by_name(vitals_data, key, up) ==
    IF key \notin DOMAIN vitals_data \/ key \notin TextFields \/ ~up THEN NotSubmitted
    ELSE [submitted |-> TRUE, Data |-> vitals_data, PartitionKey |-> vitals_data.patient_name]

put_record(vitals_data, key, up) ==
    IF key \notin DOMAIN vitals_data THEN NotSubmitted
    ELSE IF key \notin TextFields THEN NotSubmitted
    ELSE IF ~up THEN NotSubmitted
    ELSE [submitted |-> TRUE, Data |-> vitals_data, PartitionKey |-> vitals_data[key]]

StartCalc(p) ==
    [pc |-> "start", patient |-> p, computed |-> FALSE, baseline |-> <<>>,
     raw |-> <<>>, sample |-> <<>>, key |-> Unset, record |-> NotSubmitted]

progVars == <<flagFile, ENABLE_SIMULATION, loop, ui, obs, trueSinceStop, stopSinceStart, watch,
              backend>>

InitCalc ==
    /\ watch = "calc"
    /\ flagFile = "absent"
    /\ ENABLE_SIMULATION = TRUE
    /\ loop = [l \in Loops |-> NewLoop]
    /\ ui = [s \in Sessions |-> NewSession]
    /\ obs = [l \in Loops |-> NewObs]
    /\ trueSinceStop = FALSE
    /\ stopSinceStart = FALSE
    /\ calc \in { StartCalc(p) : p \in PatientChoices }
    /\ backend = NoBackend

\* baseline = get_patient_baseline_vitals(patient)
CalcBaseline ==
    /\ calc.pc = "start"
    /\ calc' = [calc EXCEPT !.pc = "generate", !.computed = TRUE,
                            !.baseline = get_patient_baseline_vitals(calc.patient)]
    /\ UNCHANGED progVars

\* a baseline from elsewhere, for a patient without history
CalcGiven ==
    /\ calc.pc = "start"
    /\ VitalsHistory(calc.patient) = <<>>
    /\ \E b \in GivenBaselines :
        calc' = [calc EXCEPT !.pc = "generate", !.baseline = b]
    /\ UNCHANGED progVars

\* vitals_data = generate_patient_vitals(patient, baseline): the member of
\* that set made from the pre-clamp values v, which raw keeps
CalcGenerate ==
    /\ calc.pc = "generate"
    /\ \E now \in Timestamps :
        LET raws == PreClampValues(calc.patient, calc.baseline)
        IN  IF generate_patient_vitals(calc.patient, calc.baseline, now) = {}
            THEN calc' = [calc EXCEPT !.pc = "raised"]
            ELSE \E v \in raws :
                    calc' = [calc EXCEPT !.pc = "send", !.raw = v,
                        !.sample = VitalsData(calc.patient, Clamp(v), now)]
    /\ UNCHANGED progVars

\* send_vitals_to_kinesis(vitals_data)
CalcSend ==
    /\ calc.pc = "send"
    /\ \E key \in KeyChoices, up \in BOOLEAN :
        calc' = [calc EXCEPT !.pc = "sent", !.key = key,
                             !.record = put_record(calc.sample, key, up)]
    /\ UNCHANGED progVars

NextCalc ==
    \/ CalcBaseline
    \/ CalcGiven
    \/ CalcGenerate
    \/ CalcSend

SpecCalc == InitCalc /\ [][NextCalc]_vars

\* ------------------------------------------------------------------------
\* backend.py: resolve_alert and fetch_llm_analysis, called on their own
\* ------------------------------------------------------------------------
\* S3 keys
AnalysisPrefix == <<"l", "l", "m", "-", "a", "n", "a", "l", "y", "s", "e", "s", "/">>
KeyA == <<"l", "l", "m", "-", "a", "n", "a", "l", "y", "s", "e", "s", "/", "a">>
KeyB == <<"l", "l", "m", "-", "a", "n", "a", "l", "y", "s", "e", "s", "/", "b">>
KeyReport == <<"r", "e", "p", "o", "r", "t", "s", "/", "a">>
KeyUpper == <<"L", "L", "M", "-", "a", "n", "a", "l", "y", "s", "e", "s", "/", "a">>
NoKey == <<>>
StoredKeys == {KeyA, KeyB, KeyReport}
KeyChoicesS3 == StoredKeys \cup {KeyUpper, NoKey}

\* s.startswith(prefix)
StartsWith(s, prefix) ==
    Len(s) >= Len(prefix) /\ SubSeq(s, 1, Len(prefix)) = prefix

\* documents of the alerts collection
AlertA == [patient_id |-> "P001", s3_analysis_location |-> KeyA, status |-> "active"]
AlertB == [patient_id |-> "P002", s3_analysis_location |-> KeyB, status |-> "active"]
AlertNoPath == [patient_id |-> "P001", status |-> "active"]
AlertChoices == { <<AlertA, AlertB>>, <<AlertA>>, <<AlertNoPath, AlertB>> }
AlertPatients == {"P001", "P002"}

\* datetime.utcnow().isoformat() at line 306
ResolveTimes == {"2025-01-01T00:00:00.000000", "2025-01-01T00:05:00.000000"}

\* the exception s3_client.head_object raises for a key that does not exist:
\* botocore raises ClientError with code 404 for the HEAD request; NoSuchKey,
\* which line 262 names, is allowed for as well
HeadMissingErrors == {"ClientError", "NoSuchKey"}

\* the call of the object store that fails on its own (service, network,
\* permissions), if any
S3Faults == {"none", "head", "delete"}

\* s3_client.head_object(Bucket, Key): "ok", or the exception raised
head_object(objects, key, s3_fault, missing_error) ==
    IF s3_fault = "head" THEN "ClientError"
    ELSE IF key \in objects THEN "ok"
    ELSE missing_error

\* s3_client.delete_object(Bucket, Key): the objects left
delete_object(objects, key) == objects \ {key}

\* the documents that match {"patient_id": ..., "s3_analysis_location": ...}
Matching(alerts, patient_id, s3_path) ==
    { i \in 1..Len(alerts) :
        /\ alerts[i].patient_id = patient_id
        /\ GetText(alerts[i], "s3_analysis_location") = s3_path }

\* update_one(filter, {"$set": {"status": "resolved", "resolved_at": now}}):
\* the first matching document is updated
update_one(alerts, patient_id, s3_path, now) ==
    LET found == Matching(alerts, patient_id, s3_path)
    IN  IF found = {} THEN alerts
        ELSE LET first == CHOOSE i \in found : \A j \in found : i <= j
                 doc == alerts[first]
             IN  [alerts EXCEPT ![first] =
                    [k \in DOMAIN doc \cup {"status", "resolved_at"} |->
                        IF k = "status" THEN "resolved"
                        ELSE IF k = "resolved_at" THEN now
                        ELSE doc[k]]]

\* what is kept of a call: its arguments, the value returned, and for
\* resolve_alert how the object-store step ended ("skipped", "deleted",
\* "missing", "error") and which store failed on its own (s3_fault,
\* mongo_fault), for fetch_llm_analysis the key given to get_object (NoRead:
\* no call made)
NoCall == [op |-> "none"]
NoRead == "(no read)"

\* resolve_alert(patient_id, s3_path), lines 239-336
resolve_alert(b, patient_id, s3_path, s3_fault, missing_error, mongo_fault, now) ==
    LET call == [op |-> "resolve", patient_id |-> patient_id, s3_path |-> s3_path,
                 s3_fault |-> s3_fault, mongo_fault |-> mongo_fault,
                 s3 |-> "skipped", ret |-> FALSE]
        head == head_object(b.objects, s3_path, s3_fault, missing_error)
    IN  IF s3_path = NoKey
        THEN [b EXCEPT !.last = call]
        ELSE IF ~b.s3_client
        THEN [b EXCEPT !.last = call]
        ELSE IF head = "ClientError"
        THEN [b EXCEPT !.last = [call EXCEPT !.s3 = "error"]]
        ELSE IF head = "ok" /\ s3_fault = "delete"
        THEN [b EXCEPT !.last = [call EXCEPT !.s3 = "error"]]
        ELSE
        LET step    == IF head = "ok" THEN "deleted" ELSE "missing"
            objects == IF head = "ok" THEN delete_object(b.objects, s3_path) ELSE b.objects
            deleted == TRUE
            updated == update_one(b.alerts, patient_id, s3_path, now)
            modified_count == IF updated # b.alerts THEN 1 ELSE 0
        IN  IF ~b.db_live
            THEN [b EXCEPT !.objects = objects, !.last = [call EXCEPT !.s3 = step]]
            ELSE IF mongo_fault
            THEN [b EXCEPT !.objects = objects, !.last = [call EXCEPT !.s3 = step]]
            ELSE [b EXCEPT !.objects = objects, !.alerts = updated,
                    !.last = [call EXCEPT !.s3 = step,
                                !.ret = IF modified_count > 0 THEN TRUE ELSE deleted]]

fetch_llm_analysis_any_key(b, s3_analysis_location) ==
    IF s3_analysis_location = NoKey \/ ~b.s3_client
    THEN [b EXCEPT !.last = [op |-> "fetch", key |-> s3_analysis_location,
                             read |-> NoRead, ret |-> "None"]]
    ELSE [b EXCEPT !.last = [op |-> "fetch", key |-> s3_analysis_location,
                             read |-> s3_analysis_location, ret |-> "None"]]

\* fetch_llm_analysis(s3_analysis_location), lines 352-385: get_object raises
\* for a key that does not exist
fetch_llm_analysis(b, s3_analysis_location) ==
    LET call == [op |-> "fetch", key |-> s3_analysis_location, read |-> NoRead,
                 ret |-> "None"]
    IN  IF s3_analysis_location = NoKey
        THEN [b EXCEPT !.last = call]
        ELSE IF ~b.s3_client
        THEN [b EXCEPT !.last = call]
        ELSE IF ~StartsWith(s3_analysis_location, AnalysisPrefix)
        THEN [b EXCEPT !.last = call]
        ELSE [b EXCEPT !.last = [call EXCEPT
                !.read = s3_analysis_location,
                !.ret = IF s3_analysis_location \in b.objects THEN "analysis" ELSE "None"]]

InitAlert ==
    /\ watch = "alert"
    /\ flagFile = "absent"
    /\ ENABLE_SIMULATION = TRUE
    /\ loop = [l \in Loops |-> NewLoop]
    /\ ui = [s \in Sessions |-> NewSession]
    /\ obs = [l \in Loops |-> NewObs]
    /\ trueSinceStop = FALSE
    /\ stopSinceStart = FALSE
    /\ calc = NoCalc
    /\ backend \in { [pc |-> "on", s3_client |-> c, db_live |-> d, objects |-> o,
                      alerts |-> a, last |-> NoCall] :
                        c \in BOOLEAN, d \in BOOLEAN, o \in SUBSET StoredKeys,
                        a \in AlertChoices }

\* a call of resolve_alert, from the Resolve button or elsewhere
ResolveAlert ==
    /\ backend.pc = "on"
    /\ \E patient_id \in AlertPatients, s3_path \in KeyChoicesS3,
          s3_fault \in S3Faults, missing_error \in HeadMissingErrors,
          mongo_fault \in BOOLEAN, now \in ResolveTimes :
        backend' = resolve_alert(backend, patient_id, s3_path, s3_fault,
                                 missing_error, mongo_fault, now)
    /\ UNCHANGED <<flagFile, ENABLE_SIMULATION, loop, ui, obs, trueSinceStop,
                   stopSinceStart, watch, calc>>

\* a call of fetch_llm_analysis
FetchAnalysis ==
    /\ backend.pc = "on"
    /\ \E key \in KeyChoicesS3 : backend' = fetch_llm_analysis(backend, key)
    /\ UNCHANGED <<flagFile, ENABLE_SIMULATION, loop, ui, obs, trueSinceStop,
                   stopSinceStart, watch, calc>>

NextAlert ==
    \/ ResolveAlert
    \/ FetchAnalysis

SpecAlert == InitAlert /\ [][NextAlert]_vars

TypeOK ==
    /\ watch \in Watches
    /\ flagFile \in FlagTexts
    /\ \A l \in Loops : loop[l].pc \in LoopPcs

\* ------------------------------------------------------------------------
\* Properties
\* ------------------------------------------------------------------------
Stopped(l) == loop[l].pc \in {"unborn", "done"}
CurrentBaseline(l) ==
    loop[l].patient_baselines[loop[l].active_patients[loop[l].idx].patient_id]

\* C1: once "0" has been written while a loop was mid-cycle, and "1" not
\* since, that loop generates at most one more sample, submits at most one
\* more record (the sample in flight or the one it generates) and begins no
\* new cycle.
C1_AtMostOneMoreSample ==
    \A l \in Loops :
        obs[l].at # "no" =>
            /\ obs[l].g <= 1
            /\ obs[l].p <= 1
            /\ ~obs[l].c
            /\ (obs[l].at = "send" => obs[l].g = 0)
            /\ (obs[l].at = "for" => obs[l].g = 0 /\ obs[l].p = 0)

\* a loop stopped between its check and its generate step: one more sample
\* was generated and submitted, and the loop is on its way out
C1_Witness ==
    \E l \in Loops :
        /\ obs[l].at = "gen" /\ obs[l].g = 1 /\ obs[l].p = 1
        /\ loop[l].pc = "finally"

\* C2: when the per-subject check has read the flag as false, the loop goes to
\* Stopping: from the break it goes through the finally block to the end of
\* main() and nowhere else, so it generates no sample and begins no cycle.
C2_BreakLeadsToStopping ==
    [][\A l \in Loops :
        obs[l].brk => loop'[l].pc \in {"post", "finally", "finally_w", "done"}]_vars

\* C3: a run that ends after a stop seen at a subject or cycle boundary, or
\* after an error inside the loop, has written "0" when it ends; and its write
\* leaves a flag that read false reading false, at both steps of the write.
C3_EndedRunsClearFlag ==
    /\ [](\A l \in Loops :
            (loop[l].pc = "done" /\ obs[l].exit \in {"stop", "error"}) => obs[l].cleared)
    /\ [][\A l \in Loops :
            /\ (loop[l].pc # "done" /\ loop'[l].pc = "done" /\ obs'[l].exit # "empty")
                  => flagFile' = "0"
            /\ (loop[l].pc \in StoppingPcs /\ loop'[l].pc # loop[l].pc
                /\ ~is_simulation_running(flagFile))
                  => ~is_simulation_running(flagFile')]_vars

\* a run has ended after a stop seen at a subject boundary: it is in its
\* finally block, about to write "0" over "0"
C3_Witness ==
    \E l \in Loops :
        /\ loop[l].pc = "finally_w" /\ obs[l].brk /\ obs[l].exit = "stop"
        /\ \E k \in Loops : loop[k].pc = "done" /\ obs[k].exit = "error" /\ obs[k].cleared

\* C4: no thread is created by a start request (either button) that found
\* MongoDB unreachable; a refused start request creates no thread and writes
\* nothing to the flag file, then or in the rest of its handler.
C4_UnreachableStartFails ==
    /\ [](\A l \in Loops : loop[l].pc # "unborn" => obs[l].conn)
    /\ [][\A s \in Sessions :
            (ui'[s] # ui[s] /\ (ui'[s].pc = "failed" \/ ui[s].pc = "failed"))
                => /\ loop' = loop
                   /\ flagFile' = flagFile
                   /\ ui'[s].pc \in {"failed", "idle"}]_vars

\* a start request has just been refused because MongoDB was unreachable
C4_Witness ==
    \E s \in Sessions : ui[s].pc = "failed" /\ ENABLE_SIMULATION

\* C5: a start request whose roster load returns an empty roster is reported
\* to its caller as a failure.
C5_EmptyRosterReportedAsFailure ==
    \A l \in Loops : obs[l].exit = "empty" => ~obs[l].reported

\* C6: when every start attempt so far failed at startup and all of them have
\* finished, no loop is running and the flag reads false.
C6_FailedStartLeavesNothing ==
    ( /\ \E l \in Loops : obs[l].exit = "empty"
      /\ \A l \in Loops : Stopped(l) /\ obs[l].exit \in {"none", "empty"}
      /\ \A s \in Sessions : ui[s].pc = "idle" )
        => ~is_simulation_running(flagFile)

\* C7: two loops were started concurrently (the second while the first was
\* alive): once a stop request has been issued after the starts and the loops
\* have both seen the flag false and finished, with no thread and no handler
\* still at work, the flag reads false.
C7_TwoLoopsStoppedFlagFalse ==
    ( /\ stopSinceStart
      /\ Cardinality({l \in Loops : loop[l].pc = "done"}) >= 2
      /\ \E l \in Loops : obs[l].co
      /\ \A l \in Loops :
            Stopped(l) /\ (loop[l].pc = "done" => obs[l].exit = "stop")
      /\ \A s \in Sessions : ui[s].pc = "idle" )
        => ~is_simulation_running(flagFile)

\* C8: a loop that was running when a stop request wrote "0" generates at most
\* one more sample, whatever start request conflicts with the stop.
C8_StopMissedForOneSubject ==
    [][\A l \in Loops :
        obs[l].req = 2 => ~(loop[l].pc = "gen" /\ loop'[l].pc = "send")]_vars

\* C9: (fair scheduling of the threads) whenever "0" is in the flag file,
\* either "1" is written again or every loop reaches Stopped with the flag
\* reading false; and once all loops are stopped with the flag reading false
\* it keeps reading false until "1" is written.
C9_StopEventuallyStopsAll ==
    /\ (flagFile = "0")
          ~> (trueSinceStop \/ ((\A l \in Loops : Stopped(l))
                                    /\ ~is_simulation_running(flagFile)))
    /\ [][((\A l \in Loops : Stopped(l)) /\ ~is_simulation_running(flagFile)
            /\ ~trueSinceStop')
              => ~is_simulation_running(flagFile')]_vars

\* a loop has finished after seeing the stop, every loop is stopped and the
\* flag file holds "0"
C9_Witness ==
    /\ flagFile = "0"
    /\ ~trueSinceStop
    /\ \A l \in Loops : Stopped(l)
    /\ \E l \in Loops : obs[l].exit = "stop"

\* C10: a publish attempt, failed or not, takes the loop to the check of the
\* next patient; and after a failed publish in the cycle, a check that reads
\* the flag as true is followed by the generation for that patient, and a
\* generated sample by its publish attempt.
C10_PublishFailureDoesNotStop ==
    [][\A l \in Loops :
        /\ (loop[l].pc = "send" /\ loop'[l] # loop[l])
              => /\ loop'[l].active_patients = loop[l].active_patients
                 /\ IF loop[l].idx < Len(loop[l].active_patients)
                    THEN loop'[l].pc = "for" /\ loop'[l].idx = loop[l].idx + 1
                    ELSE loop'[l].pc = "post"
        /\ (obs[l].fail /\ loop'[l] # loop[l] /\ loop[l].pc = "for"
            /\ is_simulation_running(flagFile))
              => loop'[l].pc = "gen"
        /\ (obs[l].fail /\ loop'[l] # loop[l] /\ loop[l].pc = "gen"
            /\ ~GenerateRaises(CurrentBaseline(l)))
              => loop'[l].pc = "send"]_vars

\* the publish for the first patient failed and the sample of the second
\* patient of the same cycle is about to be submitted
C10_Witness ==
    \E l \in Loops : obs[l].fail /\ loop[l].pc = "send" /\ loop[l].idx = 2

\* C11: a loop that is Running leaves the Running state only because it read
\* the flag as false: no run ends through the exception handler of main()
\* because of the data of a subject.
C11_OnlyStopEndsRunning ==
    \A l \in Loops : obs[l].exit # "error"

\* C16: each generated sample gets exactly one publish attempt: there is never
\* a second attempt for it, a loop about to publish has not yet attempted, and
\* a loop leaves the publish step with the attempt made, whatever the flag
\* reads at that moment.
C16_OneSubmissionPerSample ==
    /\ [](\A l \in Loops :
            /\ obs[l].tries <= 1
            /\ (loop[l].pc = "send" => obs[l].tries = 0))
    /\ [][\A l \in Loops :
            /\ (loop[l].pc = "send" /\ loop'[l].pc # "send") => obs'[l].tries = 1
            /\ (loop[l].pc = "gen" /\ loop'[l].pc \notin {"gen", "send"})
                  => GenerateRaises(CurrentBaseline(l))]_vars

\* the one publish attempt for the sample in hand has been made, and failed,
\* while a stop is in the flag file; the loop is at the check after the for
\* loop and has not submitted the sample again
C16_Witness ==
    \E l \in Loops :
        /\ watch = "publish"
        /\ loop[l].pc = "post" /\ obs[l].tries = 1 /\ obs[l].fail
        /\ flagFile = "0"

\* C17: a cycle starts at the first patient of the roster, generates and
\* submits for one patient after the other in roster order, and reaches its
\* end without a break only after the last patient; the roster is the same
\* list in every cycle.
C17_CyclesFollowRosterOrder ==
    /\ [](\A l \in Loops :
            loop[l].pc \in MidCyclePcs => loop[l].idx \in 1..Len(loop[l].active_patients))
    /\ [][\A l \in Loops :
            /\ (loop[l].pc = "while" /\ loop'[l].pc = "for") => loop'[l].idx = 1
            /\ (loop[l].pc = "for" /\ loop'[l].pc = "gen") => loop'[l].idx = loop[l].idx
            /\ (loop[l].pc = "gen" /\ loop'[l].pc = "send") => loop'[l].idx = loop[l].idx
            /\ (loop[l].pc = "send" /\ loop'[l].pc = "for") => loop'[l].idx = loop[l].idx + 1
            /\ (loop[l].pc = "send" /\ loop'[l].pc = "post")
                  => loop[l].idx = Len(loop[l].active_patients)
            /\ (loop[l].pc \in RunningPcs /\ loop'[l].pc \in RunningPcs)
                  => loop'[l].active_patients = loop[l].active_patients]_vars

\* a cycle over a roster of two patients has been completed without a break
C17_Witness ==
    \E l \in Loops :
        /\ loop[l].pc = "post" /\ ~obs[l].brk
        /\ loop[l].idx = 2 /\ Len(loop[l].active_patients) = 2

\* C18: the roster and the baselines of a run are set when the run loads
\* them, the baselines being those of that roster, and they stay the same for
\* as long as the run is in its loop; each run loads its own.
C18_RosterFixedPerRun ==
    [][\A l \in Loops :
        /\ (loop[l].pc = "load" /\ loop'[l].pc = "while")
              => /\ loop'[l].active_patients \in RosterChoices \ {<<>>}
                 /\ loop'[l].patient_baselines = PatientBaselines(loop'[l].active_patients)
        /\ (loop[l].pc \in RunningPcs /\ loop'[l].pc \in RunningPcs)
              => /\ loop'[l].active_patients = loop[l].active_patients
                 /\ loop'[l].patient_baselines = loop[l].patient_baselines]_vars

\* two runs are in their loops at once, the later one with a roster of its own
C18_Witness ==
    \E l, k \in Loops :
        /\ loop[l].pc \in RunningPcs /\ loop[k].pc = "post"
        /\ loop[l].active_patients # loop[k].active_patients

\* C12: every sample generate_patient_vitals returns has heart_rate in
\* [40,180], systolic in [80,200], diastolic in [50,120] (the two numbers of
\* its blood_pressure text), temperature in [35.0,42.0] and spo2 in
\* [70.0,100.0], whatever the baseline and the conditions.
C12_SamplesWithinHardBounds ==
    calc.pc \in {"send", "sent"} =>
        /\ calc.sample.heart_rate \in 40..180
        /\ BpParses(calc.sample.blood_pressure)
        /\ BpSystolic(calc.sample.blood_pressure) \in 80..200
        /\ BpDiastolic(calc.sample.blood_pressure) \in 50..120
        /\ calc.sample.temperature_celsius \in 350..420
        /\ calc.sample.oxygen_saturation \in 700..1000

\* a sample drawn from a baseline wider than the hard bounds for a patient
\* with conditions: heart rate and temperature were cut back to the upper
\* bounds, systolic raised to the lower one
C12_Witness ==
    /\ calc.pc = "send" /\ ~calc.computed
    /\ DiagnosedConditions(calc.patient) # <<>>
    /\ calc.sample.heart_rate = 180
    /\ calc.sample.temperature_celsius = 420
    /\ BpSystolic(calc.sample.blood_pressure) = 80

\* C13: every range of a baseline computed by get_patient_baseline_vitals is
\* non-empty and lies within the hard bounds of its vital sign.
C13_BaselineRangesValid ==
    (calc.computed /\ calc.pc # "start") =>
        LET b == calc.baseline
        IN  /\ 40 <= b.heart_rate_range[1] /\ b.heart_rate_range[1] <= b.heart_rate_range[2]
            /\ b.heart_rate_range[2] <= 180
            /\ 80 <= b.systolic_range[1] /\ b.systolic_range[1] <= b.systolic_range[2]
            /\ b.systolic_range[2] <= 200
            /\ 50 <= b.diastolic_range[1] /\ b.diastolic_range[1] <= b.diastolic_range[2]
            /\ b.diastolic_range[2] <= 120
            /\ 350 <= b.temp_range[1] /\ b.temp_range[1] <= b.temp_range[2]
            /\ b.temp_range[2] <= 420
            /\ 70 * b.spo2_range.den <= b.spo2_range.lo
            /\ b.spo2_range.lo <= b.spo2_range.hi
            /\ b.spo2_range.hi <= 100 * b.spo2_range.den

\* C14: generate_patient_vitals returns a sample for every baseline that
\* get_patient_baseline_vitals computed: it never raises.
C14_GenerateNeverFails ==
    calc.computed => calc.pc # "raised"

\* C15 as stated: every submitted record has a partition key equal to the
\* patient_id of the sample in its payload.
C15_PartitionKeyIsPatientId ==
    (calc.pc = "sent" /\ calc.record.submitted) =>
        calc.record.PartitionKey = calc.record.Data.patient_id

\* C15: every submitted record carries the sample as payload and, as
\* partition key, the value of the sample's field that KINESIS_PARTITION_KEY
\* names, which is the patient_id when it names patient_id; nothing is
\* submitted when the variable is unset or names no text field of the sample.
C15_PartitionKeyIsConfiguredField ==
    calc.pc = "sent" =>
        /\ calc.record.submitted =>
              /\ calc.record.Data = calc.sample
              /\ calc.key \in DOMAIN calc.sample
              /\ calc.record.PartitionKey = calc.sample[calc.key]
              /\ (calc.key = "patient_id"
                    => calc.record.PartitionKey = calc.record.Data.patient_id)
        /\ calc.key \in {Unset, "heart_rate"} => ~calc.record.submitted

\* a record has been submitted with KINESIS_PARTITION_KEY = patient_id
C15_Witness ==
    /\ calc.pc = "sent" /\ calc.record.submitted
    /\ calc.key = "patient_id"
    /\ calc.record.PartitionKey = "P010"

\* C19: for a patient without history (field absent or empty list) the
\* computed baseline is exactly heart rate [60,100], systolic [110,130],
\* diastolic [70,85], temperature [36.1,37.2], spo2 [95,99].
C19_NoHistoryGivesDefaults ==
    (calc.computed /\ calc.pc # "start" /\ VitalsHistory(calc.patient) = <<>>) =>
        /\ calc.baseline.heart_rate_range = <<60, 100>>
        /\ calc.baseline.systolic_range = <<110, 130>>
        /\ calc.baseline.diastolic_range = <<70, 85>>
        /\ calc.baseline.temp_range = <<361, 372>>
        /\ calc.baseline.spo2_range = [lo |-> 95, hi |-> 99, den |-> 1]

\* the baseline of a patient whose document has no vitals_history field has
\* been computed
C19_Witness ==
    /\ calc.computed /\ calc.pc = "generate"
    /\ "vitals_history" \notin DOMAIN calc.patient

\* the heart_rate values the baseline is computed from
RecentHeartRates == HrValues(LastThree(VitalsHistory(calc.patient)))

\* C20 as stated: heart_rate_range = [max(50, avg - 15), min(120, avg + 15)]
\* exactly, avg being the mean of the heart_rate values of the last 3 records.
C20_HeartRateRangeExact ==
    (calc.computed /\ calc.pc # "start" /\ RecentHeartRates # <<>>) =>
        LET n == Len(RecentHeartRates)
            total == SumSeq(RecentHeartRates)
        IN  /\ n * calc.baseline.heart_rate_range[1] = Max(50 * n, total - 15 * n)
            /\ n * calc.baseline.heart_rate_range[2] = Min(120 * n, total + 15 * n)

\* C20: heart_rate_range = [max(50, a), min(120, b)] where a and b are avg - 15
\* and avg + 15 with their fractional part dropped; three values averaging 90
\* give [75,105].
C20_HeartRateRangeTruncated ==
    (calc.computed /\ calc.pc = "generate" /\ RecentHeartRates # <<>>) =>
        LET n == Len(RecentHeartRates)
            total == SumSeq(RecentHeartRates)
        IN  /\ \E a \in 0..300 :
                /\ a * n <= total - 15 * n /\ total - 15 * n < (a + 1) * n
                /\ calc.baseline.heart_rate_range[1] = Max(50, a)
            /\ \E b \in 0..300 :
                /\ b * n <= total + 15 * n /\ total + 15 * n < (b + 1) * n
                /\ calc.baseline.heart_rate_range[2] = Min(120, b)
            /\ (n = 3 /\ total = 270) => calc.baseline.heart_rate_range = <<75, 105>>

\* the heart rates 88 and 91 (average 89.5) gave the range [74,104]
C20_Witness ==
    /\ calc.computed /\ calc.pc = "generate"
    /\ RecentHeartRates = <<88, 91>>
    /\ calc.baseline.heart_rate_range = <<74, 104>>

\* C21: a blood_pressure string that does not parse raises nothing and counts
\* in neither average: the systolic and diastolic ranges are those of the
\* same history with the unparseable strings taken out, and the defaults
\* [110,130] and [70,85] when no string of the last three records parses.
C21_MalformedBpExcluded ==
    (calc.computed /\ calc.pc = "generate" /\ VitalsHistory(calc.patient) # <<>>) =>
        LET h == VitalsHistory(calc.patient)
            Malformed(v) == /\ NonEmptyStr(GetText(v, "blood_pressure"))
                            /\ ~BpParses(v.blood_pressure)
            WithoutBp(v) == [k \in DOMAIN v \ {"blood_pressure"} |-> v[k]]
            cleaned  == [i \in 1..Len(h) |->
                            IF Malformed(h[i]) THEN WithoutBp(h[i]) ELSE h[i]]
            expected == get_patient_baseline_vitals(
                            [calc.patient EXCEPT !.vitals_history = cleaned])
            first    == IF Len(h) <= 3 THEN 1 ELSE Len(h) - 2
        IN  /\ calc.baseline.systolic_range = expected.systolic_range
            /\ calc.baseline.diastolic_range = expected.diastolic_range
            /\ (\A i \in first..Len(h) : ~BpParses(GetText(h[i], "blood_pressure")))
                   => /\ calc.baseline.systolic_range = <<110, 130>>
                      /\ calc.baseline.diastolic_range = <<70, 85>>

\* the history "120/80", "N/A" gave the ranges of 120/80 alone
C21_Witness ==
    /\ calc.computed /\ calc.pc = "generate"
    /\ VitalsHistory(calc.patient) = <<EntryNormal, EntryNoBp>>
    /\ calc.baseline.systolic_range = <<110, 130>>
    /\ calc.baseline.diastolic_range = <<72, 88>>

\* C22: the baseline depends only on the last 3 records of the history: any
\* other history with the same last 3 records (the same whole history when
\* shorter) gives the same baseline.
C22_OnlyLastThreeMatter ==
    (calc.computed /\ calc.pc = "generate" /\ VitalsHistory(calc.patient) # <<>>) =>
        LET EndOf(x) == IF Len(x) <= 3 THEN x ELSE SubSeq(x, Len(x) - 2, Len(x))
        IN  \A other \in Histories :
                (other # <<>> /\ EndOf(other) = EndOf(VitalsHistory(calc.patient))) =>
                    get_patient_baseline_vitals(
                        [calc.patient EXCEPT !.vitals_history = other]) = calc.baseline

\* a fourth-last record with heart rate 142 and pressure 190/110 left the
\* baseline that of the three normal records after it
C22_Witness ==
    /\ calc.computed /\ calc.pc = "generate"
    /\ VitalsHistory(calc.patient) = <<EntryCrisis, EntryNormal, EntryNormal, EntryNormal>>
    /\ calc.baseline.heart_rate_range = <<73, 103>>
    /\ calc.baseline.systolic_range = <<110, 130>>

\* C23: the temperature range of every computed baseline is [36.1,37.2],
\* whatever temperatures the history holds.
C23_TemperatureRangeFixed ==
    calc.computed => calc.baseline.temp_range = <<361, 372>>

\* the last record of the history holds a temperature of 39.5 and the
\* baseline has been computed
C23_Witness ==
    /\ calc.computed /\ calc.pc = "generate"
    /\ VitalsHistory(calc.patient) # <<>>
    /\ LET h == VitalsHistory(calc.patient)
       IN  GetNumber(h[Len(h)], "temperature_celsius") = 395
    /\ calc.baseline.temp_range = <<361, 372>>

\* the patient has a condition named hypertension of severity moderate or
\* severe
HasHypertension(patient) ==
    \E i \in 1..Len(DiagnosedConditions(patient)) :
        LET condition == DiagnosedConditions(patient)[i]
        IN  /\ Contains(Lower(GetText(condition, "condition")), KwHypertension)
            /\ Lower(GetText(condition, "severity")) \in {SevModerate, SevSevere}

\* C24: with a condition named hypertension of severity moderate or severe
\* and a baseline systolic range [lo,hi], the systolic value is at least lo
\* before the clamps, and the sampled one is at least lo and at most 200.
C24_HypertensionSystolicBounds ==
    (calc.pc \in {"send", "sent"} /\ HasHypertension(calc.patient)) =>
        /\ calc.raw.systolic >= calc.baseline.systolic_range[1]
        /\ BpSystolic(calc.sample.blood_pressure) >= calc.baseline.systolic_range[1]
        /\ BpSystolic(calc.sample.blood_pressure) <= 200

\* severe hypertension, the default range [110,130]: the draw 130 raised by 25
C24_Witness ==
    /\ calc.pc = "send" /\ HasHypertension(calc.patient)
    /\ calc.baseline.systolic_range = <<110, 130>>
    /\ calc.raw.systolic = 155
    /\ BpSystolic(calc.sample.blood_pressure) = 155

\* the number of diagnosed conditions whose name contains "fever" or
\* "infection", and the number whose name contains "diabetes"
FeverConditions(patient) ==
    Cardinality({ i \in 1..Len(DiagnosedConditions(patient)) :
        LET name == Lower(GetText(DiagnosedConditions(patient)[i], "condition"))
        IN  Contains(name, KwFever) \/ Contains(name, KwInfection) })
DiabetesConditions(patient) ==
    Cardinality({ i \in 1..Len(DiagnosedConditions(patient)) :
        LET name == Lower(GetText(DiagnosedConditions(patient)[i], "condition"))
        IN  Contains(name, KwDiabetes) })

\* C25 as stated: each condition whose name contains "fever" or "infection",
\* whatever else it contains, raises the temperature before the clamps by
\* 0.5 to 2.0 and the heart rate by 5 to 20, and the raises add up: with k
\* such conditions the temperature lies between lo + 0.5k and hi + 2.0k of
\* the baseline's range, the heart rate at least 5k above its lower end.
C25_EveryFeverNameRaises ==
    (calc.pc \in {"send", "sent"} /\ FeverConditions(calc.patient) > 0) =>
        LET k == FeverConditions(calc.patient)
        IN  /\ calc.raw.temp >= calc.baseline.temp_range[1] + 5 * k
            /\ calc.raw.temp <= calc.baseline.temp_range[2] + 20 * k
            /\ calc.raw.heart_rate >= calc.baseline.heart_rate_range[1] + 5 * k
            /\ calc.raw.heart_rate <= calc.baseline.heart_rate_range[2] + 20 * k
                                        + 10 * DiabetesConditions(calc.patient)

\* C26: with ENABLE_SIMULATION false no thread is ever created and the flag
\* file stays as it was; every start request (either button) is refused: the
\* handler goes to its error message with the threads and the flag file
\* untouched and sim_started still false.
C26_DisabledStartRefused ==
    /\ [](~ENABLE_SIMULATION =>
            /\ \A l \in Loops : loop[l].pc = "unborn"
            /\ flagFile = "absent")
    /\ [][~ENABLE_SIMULATION =>
            \A s \in Sessions :
                (ui[s].pc = "idle" /\ ui'[s] # ui[s])
                    => /\ ui'[s] = [pc |-> "failed", sim_started |-> FALSE]
                       /\ loop' = loop
                       /\ flagFile' = flagFile]_vars

\* a start request has just been refused because the simulation is disabled
C26_Witness ==
    /\ ~ENABLE_SIMULATION
    /\ \E s \in Sessions : ui[s].pc = "failed"

\* C27 as stated: at most one thread runs producer.main() at any time.
C27_AtMostOneLoop ==
    Cardinality({l \in Loops : ~Stopped(l)}) <= 1

\* C28 as stated: a thread created by a start request that followed a stop
\* request never reads "0" at a flag check while no stop request has written
\* since its start: the "0" that another thread's finally block writes does
\* not end it.
C28_ExitWriteDoesNotCancelStart ==
    [][\A l \in Loops :
        ( /\ obs[l].afterStop /\ ~stopSinceStart
          /\ loop[l].pc \in {"while", "for", "post"}
          /\ loop'[l] # loop[l] )
            => flagFile # WrittenText(FALSE)]_vars

\* C29 as stated: when the flag reads true and no start request is between
\* its thread creation and the end of its handler, some thread is alive.
C29_TrueFlagHasLoop ==
    ( /\ is_simulation_running(flagFile)
      /\ \A s \in Sessions : ui[s].pc \notin {"set", "set_w", "read"} )
        => \E l \in Loops : ~Stopped(l)

\* C30 as stated: a flag check reads false only when the last completed write
\* was "0", or none was made, or a write of "0" is under way: while "1" is
\* the last value written, writing "1" again makes no check read false.
C30_FalseReadOnlyAfterFalseWrite ==
    [][\A l \in Loops :
        ( /\ loop[l].pc \in {"while", "for", "post"}
          /\ loop'[l] # loop[l]
          /\ trueSinceStop
          /\ \A k \in Loops : loop[k].pc # "finally_w"
          /\ \A s \in Sessions : ui[s].pc # "stop_w" )
            => is_simulation_running(flagFile)]_vars

\* C31 as stated: every patient of the roster, a roster with a repeated
\* patient_id included, is sampled from the baseline computed from that
\* patient's own document.
C31_SampledFromOwnBaseline ==
    \A l \in Loops :
        loop[l].pc = "gen" =>
            CurrentBaseline(l) =
                get_patient_baseline_vitals(loop[l].active_patients[loop[l].idx])

\* C32: the blood_pressure text of every sample parses as the estimator
\* parses it, to exactly the clamped systolic and diastolic values; in a
\* history the text is kept and counted, not skipped.
C32_BloodPressureRoundTrips ==
    calc.pc \in {"send", "sent"} =>
        LET bp == calc.sample.blood_pressure
            fed_back == << [blood_pressure |-> bp] >>
        IN  /\ BpParses(bp)
            /\ BpSystolic(bp) = Max(80, Min(200, calc.raw.systolic))
            /\ BpDiastolic(bp) = Max(50, Min(120, calc.raw.diastolic))
            /\ Systolics(BpValues(fed_back)) = << Max(80, Min(200, calc.raw.systolic)) >>
            /\ Diastolics(BpValues(fed_back)) = << Max(50, Min(120, calc.raw.diastolic)) >>

\* a systolic value of 285 was clamped and written as "200/..."; the text
\* parses to 200
C32_Witness ==
    /\ calc.pc = "send"
    /\ calc.raw.systolic = 285
    /\ BpParses(calc.sample.blood_pressure)
    /\ BpSystolic(calc.sample.blood_pressure) = 200

\* C33 as stated: when resolve_alert has returned True there is an alert
\* document for (patient_id, s3_path), every such document has status
\* resolved, and the object s3_path is not in the object store.
C33_TrueMeansResolvedAndDeleted ==
    (backend.pc = "on" /\ backend.last.op = "resolve" /\ backend.last.ret) =>
        LET found == Matching(backend.alerts, backend.last.patient_id, backend.last.s3_path)
        IN  /\ found # {}
            /\ \A i \in found : backend.alerts[i].status = "resolved"
            /\ backend.last.s3_path \notin backend.objects

\* C34 as stated: a call of resolve_alert changes the alerts only after the
\* object was deleted or found missing; with an empty s3_path, no s3_client
\* or an object-store error it returns False and leaves the alerts as they
\* were; and when the object is already missing, with both stores at work
\* and an alert document for the pair, it marks that alert resolved and
\* returns True.
C34_UpdateOnlyAfterObjectStep ==
    [][(backend.pc = "on" /\ backend' # backend /\ backend'.last.op = "resolve") =>
        LET call == backend'.last
        IN  /\ backend'.alerts # backend.alerts => call.s3 \in {"deleted", "missing"}
            /\ (call.s3_path = NoKey \/ ~backend.s3_client \/ call.s3 = "error")
                  => ~call.ret /\ backend'.alerts = backend.alerts
            /\ ( /\ call.s3_path # NoKey /\ call.s3_path \notin backend.objects
                 /\ backend.s3_client /\ call.s3_fault = "none"
                 /\ backend.db_live /\ ~call.mongo_fault
                 /\ Matching(backend.alerts, call.patient_id, call.s3_path) # {} )
                  => /\ call.ret
                     /\ \A i \in Matching(backend'.alerts, call.patient_id, call.s3_path) :
                            backend'.alerts[i].status = "resolved"]_vars

\* C35: fetch_llm_analysis gives get_object only the key it was called with,
\* and only when that key starts with "llm-analyses/"; for an empty key, a
\* key outside the prefix or no s3_client it returns None and calls
\* get_object not at all.
C35_ReadsOnlyUnderPrefix ==
    (backend.pc = "on" /\ backend.last.op = "fetch") =>
        LET call  == backend.last
            n     == Len(AnalysisPrefix)
            under == Len(call.key) >= n /\ \A i \in 1..n : call.key[i] = AnalysisPrefix[i]
        IN  /\ call.read # NoRead => (call.read = call.key /\ under)
            /\ (call.key = NoKey \/ ~under \/ ~backend.s3_client)
                  => call.ret = "None" /\ call.read = NoRead

\* "reports/a" is in the object store and the client is there: the call
\* returned None without a read
C35_Witness ==
    /\ backend.pc = "on" /\ backend.last.op = "fetch"
    /\ backend.s3_client /\ KeyReport \in backend.objects
    /\ backend.last.key = KeyReport
    /\ backend.last.read = NoRead /\ backend.last.ret = "None"

====
